---- MODULE Spec2Model ----
(***************************************************************************)
(* Question-answering pipeline of the HackRX service:                      *)
(*   handler/query_enhancer.py  QueryEnhancerAgent                         *)
(*   handler/retriever.py       RetrieverAgent, hybrid_score_norm          *)
(*   handler/generator.py       GeneratorAgent                             *)
(*   handler/run.py             process_single_question,                   *)
(*                              process_questions_parallel                 *)
(*   handler/hackrx.py          get_answers_from_file                      *)
(*                                                                         *)
(* Texts produced by the text-generation capability are sequences of       *)
(* lexical tokens (braces, commas, whitespace, prose, whole "key": value   *)
(* members), Python strings are TLA+ strings, Python dicts are functions   *)
(* from key strings to JSON values, and a JSON value is a record           *)
(* [ty, v] with v a sequence of strings.                                   *)
(***************************************************************************)
EXTENDS Integers, Sequences, FiniteSets, TLC

VARIABLES
    questions,  \* run.py: the `questions` argument of the batch call
    main,       \* position of get_answers_from_file / process_questions_parallel
    unit,       \* per submitted future: position of process_single_question, its future
    results,    \* run.py: the `results` list
    answers,    \* hackrx.py: the `answers` list
    elapsed,    \* time-units the collector has waited on futures that never finish
    handles,    \* the class-level attributes of the three agent classes
    enh,        \* one call of QueryEnhancerAgent.enhance_query
    ret,        \* one call of RetrieverAgent.retrieve_and_rerank
    gen         \* one call of GeneratorAgent.generate_answer or ._extract_json

vars == <<questions, main, unit, results, answers, elapsed, handles, enh, ret, gen>>

batchVars == <<questions, main, unit, results, answers, elapsed, handles>>

----------------------------------------------------------------------------
(* Bounds of the model.                                                    *)

MaxQuestions == 3

MaxMembers == 3

MaxProse == 3

MaxMatches == 3

QuestionSet == {"qA", "qB"}

----------------------------------------------------------------------------
(* Generic helpers.                                                        *)

Range(s) == {s[i] : i \in 1..Len(s)}

SeqsUpTo(S, n) == UNION {[1..k -> S] : k \in 0..n}

Max(S) == CHOOSE x \in S : \A y \in S : y <= x

Min(S) == CHOOSE x \in S : \A y \in S : x <= y

RECURSIVE Flatten(_)
Flatten(ss) == IF ss = <<>> THEN <<>> ELSE Head(ss) \o Flatten(Tail(ss))

\* dict.get(key, default)
Get(d, key, default) == IF key \in DOMAIN d THEN d[key] ELSE default

----------------------------------------------------------------------------
(* JSON values and Python values.                                          *)

JStr(s) == [ty |-> "str", v |-> <<s>>]

JList(l) == [ty |-> "list", v |-> l]

JNull == [ty |-> "null", v |-> <<>>]

EmptyDict == [k \in {} |-> JNull]

\* Python truthiness of a JSON value: None, "" and [] are falsy
Truthy(x) ==
    CASE x.ty = "str" -> x.v[1] # ""
      [] x.ty = "list" -> x.v # <<>>
      [] OTHER -> FALSE

RECURSIVE JoinStr(_, _)
JoinStr(parts, sep) ==
    IF parts = <<>> THEN ""
    ELSE IF Len(parts) = 1 THEN parts[1]
    ELSE parts[1] \o sep \o JoinStr(Tail(parts), sep)

\* str(x) of a JSON value
PyStr(x) ==
    CASE x.ty = "str" -> x.v[1]
      [] x.ty = "list" -> "[" \o JoinStr(x.v, ", ") \o "]"
      [] OTHER -> "None"

----------------------------------------------------------------------------
(* Lexical tokens of a generated text.                                     *)

IsSpace(t) == t \in {" ", "\n"}

\* "key=kind" tokens: one whole `"key": value` member of a JSON object
EnhMembers ==
    {"intent=str", "intent=null", "entities=list", "raw_query=echo",
     "raw_query=other", "keywords=list", "conditions=null"}

GenMembers ==
    {"decision=str", "decision=empty", "answer=str", "amount=null",
     "justification=str", "justification=escaped_backslash", "clauses=list"}

\* members json.loads rejects: a string holding a backslash before a character
\* that is no escape, a string holding a raw newline, a string holding \u before
\* characters that are no four hexadecimal digits
BrokenMembers ==
    {"justification=bad_escape", "justification=raw_newline",
     "justification=bad_unicode_escape"}

MemberTokens == EnhMembers \cup GenMembers

MemberKey(t) ==
    CASE t \in {"intent=str", "intent=null"} -> "intent"
      [] t = "entities=list" -> "entities"
      [] t \in {"raw_query=echo", "raw_query=other"} -> "raw_query"
      [] t = "keywords=list" -> "keywords"
      [] t = "conditions=null" -> "conditions"
      [] t \in {"decision=str", "decision=empty"} -> "decision"
      [] t = "answer=str" -> "answer"
      [] t = "amount=null" -> "amount"
      [] t \in {"justification=str", "justification=escaped_backslash"} -> "justification"
      [] t = "clauses=list" -> "clauses"

\* the value the member carries; the model echoes `query` in raw_query=echo
MemberValue(t, query) ==
    CASE t = "intent=str" -> JStr("coverage_check")
      [] t = "entities=list" -> JList(<<"knee surgery">>)
      [] t = "raw_query=echo" -> JStr(query)
      [] t = "raw_query=other" -> JStr("rephrased")
      [] t = "keywords=list" -> JList(<<"PED">>)
      [] t = "decision=str" -> JStr("Yes, covered")
      [] t = "decision=empty" -> JStr("")
      [] t = "answer=str" -> JStr("36 months")
      [] t = "justification=str" -> JStr("Section 4.1")
      [] t = "justification=escaped_backslash" -> JStr("Section 4\\1")
      [] t = "clauses=list" -> JList(<<>>)
      [] OTHER -> JNull

----------------------------------------------------------------------------
(* re and json as the two agents use them.                                 *)

Positions(text, tok) == {i \in 1..Len(text) : text[i] = tok}

\* re.search(r'\{.*\}', text, re.DOTALL): first '{' to the last '}' after it
SearchBraces(text) ==
    LET opens == Positions(text, "{")
        closes == Positions(text, "}")
    IN  IF opens = {} \/ closes = {} \/ Min(opens) > Max(closes)
        THEN [found |-> FALSE, group |-> <<>>]
        ELSE [found |-> TRUE, group |-> SubSeq(text, Min(opens), Max(closes))]

RECURSIVE SkipSpace(_)
SkipSpace(s) == IF s # <<>> /\ IsSpace(Head(s)) THEN SkipSpace(Tail(s)) ELSE s

\* re.sub(r',\s*([\}\]])', r'\1', s)
RECURSIVE RemoveTrailingCommas(_)
RemoveTrailingCommas(s) ==
    IF s = <<>> THEN <<>>
    ELSE LET rest == SkipSpace(Tail(s))
         IN  IF Head(s) = "," /\ rest # <<>> /\ Head(rest) \in {"}", "]"}
             THEN <<Head(rest)>> \o RemoveTrailingCommas(Tail(rest))
             ELSE <<Head(s)>> \o RemoveTrailingCommas(Tail(s))

\* json.loads(s): s must be one object, `{`, members separated by single commas, `}`,
\* with whitespace allowed between tokens; a repeated key keeps its last value
JsonLoads(s, query) ==
    LET t == SelectSeq(s, LAMBDA x : ~IsSpace(x))
        n == Len(t)
        inner == IF n >= 2 THEN SubSeq(t, 2, n - 1) ELSE <<>>
        m == Len(inner)
        wellFormed ==
            /\ n >= 2 /\ t[1] = "{" /\ t[n] = "}"
            /\ (m = 0 \/ m % 2 = 1)
            /\ \A i \in 1..m :
                  IF i % 2 = 1 THEN inner[i] \in MemberTokens ELSE inner[i] = ","
        keys == {MemberKey(inner[i]) : i \in {j \in 1..m : j % 2 = 1}}
        last(k) == Max({i \in 1..m : i % 2 = 1 /\ MemberKey(inner[i]) = k})
    IN  IF wellFormed
        THEN [ok |-> TRUE, dict |-> [k \in keys |-> MemberValue(inner[last(k)], query)]]
        ELSE [ok |-> FALSE, dict |-> EmptyDict]

----------------------------------------------------------------------------
(* handler/query_enhancer.py                                               *)

\* QueryEnhancerAgent._extract_json
EnhancerExtractJson(text, query) ==
    LET json_match == SearchBraces(text)
        loaded == JsonLoads(RemoveTrailingCommas(json_match.group), query)
    IN  IF ~json_match.found
        THEN [kind |-> "raise", exc |-> "No JSON object found in the response string.",
              dict |-> EmptyDict]
        ELSE IF ~loaded.ok
        THEN [kind |-> "raise", exc |-> "JSONDecodeError", dict |-> EmptyDict]
        ELSE [kind |-> "return", exc |-> "", dict |-> loaded.dict]

\* pydantic validation of EnhancedQuery(**response_data)
EnhancedQueryValid(d) ==
    /\ "intent" \in DOMAIN d /\ d["intent"].ty = "str"
    /\ "entities" \in DOMAIN d /\ d["entities"].ty = "list"
    /\ "raw_query" \in DOMAIN d /\ d["raw_query"].ty = "str"
    /\ "keywords" \in DOMAIN d => d["keywords"].ty \in {"list", "null"}
    /\ "conditions" \in DOMAIN d => d["conditions"].ty \in {"list", "null"}

\* EnhancedQuery(**response_data) of a valid record; absent optional fields are None
EnhancedQuery(d) ==
    [intent |-> d["intent"].v[1],
     entities |-> d["entities"].v,
     keywords |-> Get(d, "keywords", JNull),
     conditions |-> Get(d, "conditions", JNull),
     raw_query |-> d["raw_query"].v[1]]

\* the except branch of enhance_query
FallbackQuery(query) ==
    [intent |-> "general_query", entities |-> <<query>>, keywords |-> JNull,
     conditions |-> JNull, raw_query |-> query]

\* mutant: the handler catches only the ValueError of _extract_json
enhance_query_narrow_except(query, reply) ==
    LET response_data ==
            IF reply.kind = "text" THEN EnhancerExtractJson(reply.text, query)
            ELSE [kind |-> "raise", exc |-> "UpstreamUnavailable", dict |-> EmptyDict]
    IN  IF reply.kind = "raise" \/ response_data.kind = "raise"
        THEN [kind |-> "return", exc |-> "", value |-> FallbackQuery(query)]
        ELSE IF ~EnhancedQueryValid(response_data.dict)
        THEN [kind |-> "raise", exc |-> "ValidationError", value |-> FallbackQuery(query)]
        ELSE [kind |-> "return", exc |-> "", value |-> EnhancedQuery(response_data.dict)]

\* QueryEnhancerAgent.enhance_query: reply is what _model.generate_content did,
\* [kind |-> "raise"] or [kind |-> "text", text |-> tokens]
enhance_query(query, reply) ==
    LET response_data ==
            IF reply.kind = "text" THEN EnhancerExtractJson(reply.text, query)
            ELSE [kind |-> "raise", exc |-> "UpstreamUnavailable", dict |-> EmptyDict]
    IN  IF response_data.kind = "raise" \/ ~EnhancedQueryValid(response_data.dict)
        THEN [kind |-> "return", exc |-> "", value |-> FallbackQuery(query)]
        ELSE [kind |-> "return", exc |-> "", value |-> EnhancedQuery(response_data.dict)]

----------------------------------------------------------------------------
(* handler/retriever.py.  alpha and the vector weights are fixed-point     *)
(* numbers in tenths: alpha = 5 is 0.5, and "alpha > 1" reads alpha > 10.  *)

DefaultTopKFinal == 5

DefaultAlpha == 5

\* mutant: the range test joined with `and`, which no alpha satisfies
hybrid_score_norm_and(dense, sparse, alpha) ==
    IF alpha < 0 /\ alpha > 10
    THEN [kind |-> "raise", exc |-> "Alpha must be between 0 and 1", hdense |-> <<>>,
          hsparse |-> [indices |-> <<>>, values |-> <<>>]]
    ELSE [kind |-> "return", exc |-> "",
          hdense |-> [i \in 1..Len(dense) |-> dense[i] * alpha],
          hsparse |-> [indices |-> sparse.indices,
                       values |-> [i \in 1..Len(sparse.values) |->
                                      sparse.values[i] * (10 - alpha)]]]

\* hybrid_score_norm
hybrid_score_norm(dense, sparse, alpha) ==
    IF alpha < 0 \/ alpha > 10
    THEN [kind |-> "raise", exc |-> "Alpha must be between 0 and 1", hdense |-> <<>>,
          hsparse |-> [indices |-> <<>>, values |-> <<>>]]
    ELSE [kind |-> "return", exc |-> "",
          hdense |-> [i \in 1..Len(dense) |-> dense[i] * alpha],
          hsparse |-> [indices |-> sparse.indices,
                       values |-> [i \in 1..Len(sparse.values) |->
                                      sparse.values[i] * (10 - alpha)]]]

\* RetrieverAgent._compose_search_query
compose_search_query(enhanced_query) ==
    LET parts == <<enhanced_query.raw_query>> \o enhanced_query.entities
                    \o (IF Truthy(enhanced_query.keywords)
                        THEN enhanced_query.keywords.v ELSE <<>>)
                    \o (IF Truthy(enhanced_query.conditions)
                        THEN enhanced_query.conditions.v ELSE <<>>)
    IN  JoinStr(SelectSeq(parts, LAMBDA x : x # ""), " ")

\* the lexical weights that are not 0.0, as the sparse vector
SparseOf(lw) ==
    LET kept == SelectSeq(lw, LAMBDA e : e.val # 0)
    IN  [indices |-> [i \in 1..Len(kept) |-> kept[i].idx],
         values |-> [i \in 1..Len(kept) |-> kept[i].val]]

\* mutant: no deduplication
UniqueResults_keep_all(rs, seen_ids) == rs

\* mutant: the last match of every id is kept
RECURSIVE UniqueResults_keep_last(_, _)
UniqueResults_keep_last(rs, seen_ids) ==
    IF rs = <<>> THEN <<>>
    ELSE IF \E j \in 2..Len(rs) : rs[j].id = Head(rs).id
    THEN UniqueResults_keep_last(Tail(rs), seen_ids)
    ELSE <<Head(rs)>> \o UniqueResults_keep_last(Tail(rs), seen_ids)

\* the loop over `results` that keeps the first match of every id
RECURSIVE UniqueResults(_, _)
UniqueResults(rs, seen_ids) ==
    IF rs = <<>> THEN <<>>
    ELSE IF Head(rs).id \in seen_ids THEN UniqueResults(Tail(rs), seen_ids)
    ELSE <<Head(rs)>> \o UniqueResults(Tail(rs), seen_ids \cup {Head(rs).id})

FinalResults(unique_results) ==
    [i \in 1..Len(unique_results) |->
        [score |-> unique_results[i].score, metadata |-> unique_results[i].metadata]]

\* RetrieverAgent.retrieve_and_rerank.  emb is what _embedder.encode did: raise,
\* a result without a dense vector, or dense and lexical weights; idx is what
\* _index.query does when it is called: raise, or a sequence of matches.
\* queries lists the calls made to _index.query.
retrieve_and_rerank(enhanced_query, top_k_final, alpha, emb, idx) ==
    LET search_query == compose_search_query(enhanced_query)
        h == hybrid_score_norm(emb.dense, SparseOf(emb.lw), alpha)
        q == [text |-> search_query, vector |-> h.hdense, sparse_vector |-> h.hsparse,
              top_k |-> top_k_final]
    IN  IF emb.kind = "raise"
        THEN [kind |-> "raise", exc |-> "UpstreamUnavailable: encode", value |-> <<>>,
              queries |-> <<>>]
        ELSE IF emb.kind = "novector"
        THEN [kind |-> "raise", exc |-> "KeyError: 'dense_vecs'", value |-> <<>>,
              queries |-> <<>>]
        ELSE IF h.kind = "raise"
        THEN [kind |-> "raise", exc |-> h.exc, value |-> <<>>, queries |-> <<>>]
        ELSE IF idx.kind = "raise" \/ idx.matches = <<>>
        THEN [kind |-> "return", exc |-> "", value |-> <<>>, queries |-> <<q>>]
        ELSE [kind |-> "return", exc |-> "",
              value |-> FinalResults(UniqueResults(idx.matches, {})),
              queries |-> <<q>>]

----------------------------------------------------------------------------
(* handler/generator.py                                                    *)

\* text.strip()
RECURSIVE StripRight(_)
StripRight(s) ==
    IF s # <<>> /\ IsSpace(s[Len(s)]) THEN StripRight(SubSeq(s, 1, Len(s) - 1)) ELSE s

Strip(s) == StripRight(SkipSpace(s))

\* re.sub of the code-fence pattern (fence+json with an optional newline, or a
\* newline with a fence) by ""; FENCE_JSON and FENCE are the fence tokens
RECURSIVE RemoveFences(_)
RemoveFences(s) ==
    IF s = <<>> THEN <<>>
    ELSE IF Head(s) = "FENCE_JSON"
    THEN IF Len(s) >= 2 /\ s[2] = "\n"
         THEN RemoveFences(Tail(Tail(s))) ELSE RemoveFences(Tail(s))
    ELSE IF Head(s) = "\n" /\ Len(s) >= 2 /\ s[2] = "FENCE"
    THEN RemoveFences(Tail(Tail(s)))
    ELSE <<Head(s)>> \o RemoveFences(Tail(s))

\* re.sub of a backslash that none of " \ / b f n r t u follows, by "": the
\* invalid escape loses its backslash, and so does the second backslash of an
\* escaped backslash that precedes another character; a backslash that u follows
\* stays, whatever follows the u
RepairEscapes(s) ==
    [i \in 1..Len(s) |->
        CASE s[i] = "justification=bad_escape" -> "justification=str"
          [] s[i] = "justification=escaped_backslash" -> "justification=bad_escape"
          [] OTHER -> s[i]]

\* json_str.replace('\n', ' ')
ReplaceNewlines(s) ==
    [i \in 1..Len(s) |->
        CASE s[i] = "\n" -> " "
          [] s[i] = "justification=raw_newline" -> "justification=str"
          [] OTHER -> s[i]]

\* mutant: a text without an object parses as the empty record
GeneratorExtractJson_empty_on_miss(text, query) ==
    LET json_match == SearchBraces(RemoveFences(Strip(text)))
        json_str ==
            RemoveTrailingCommas(ReplaceNewlines(RepairEscapes(json_match.group)))
        loaded == JsonLoads(json_str, query)
    IN  IF ~json_match.found
        THEN [kind |-> "return", exc |-> "", dict |-> EmptyDict]
        ELSE IF ~loaded.ok
        THEN [kind |-> "raise", exc |-> "JSONDecodeError", dict |-> EmptyDict]
        ELSE [kind |-> "return", exc |-> "", dict |-> loaded.dict]

\* GeneratorAgent._extract_json
GeneratorExtractJson(text, query) ==
    LET json_match == SearchBraces(RemoveFences(Strip(text)))
        json_str ==
            RemoveTrailingCommas(ReplaceNewlines(RepairEscapes(json_match.group)))
        loaded == JsonLoads(json_str, query)
    IN  IF ~json_match.found
        THEN [kind |-> "raise", exc |-> "No valid JSON object found in LLM response.",
              dict |-> EmptyDict]
        ELSE IF ~loaded.ok
        THEN [kind |-> "raise", exc |-> "JSONDecodeError", dict |-> EmptyDict]
        ELSE [kind |-> "return", exc |-> "", dict |-> loaded.dict]

NotFoundAnswer ==
    [decision |-> JStr("Not Found"), amount |-> JNull,
     justification |->
        JStr("Could not find relevant information in the provided documents."),
     clauses |-> JList(<<>>)]

ErrorAnswer(cause) ==
    [decision |-> JStr("Error"), amount |-> JNull,
     justification |-> JStr("Failed to generate a valid response: " \o cause),
     clauses |-> JList(<<>>)]

\* the loop that renders the chunks: " > ".join(...) raises on a section_hierarchy
\* that is no list of strings
ContextRaises(retrieved_chunks) ==
    \E i \in 1..Len(retrieved_chunks) : retrieved_chunks[i].metadata = "null_section"

\* whether generate_answer reaches self._model.generate_content
GeneratorCallsModel(retrieved_chunks) ==
    retrieved_chunks # <<>> /\ ~ContextRaises(retrieved_chunks)

\* mutant: without the `if not retrieved_chunks` return
generate_answer_no_empty_check(raw_query, retrieved_chunks, reply) ==
    LET parsed == GeneratorExtractJson(reply.text, raw_query)
    IN  IF ContextRaises(retrieved_chunks)
        THEN [kind |-> "raise", exc |-> "TypeError: can only join an iterable",
              value |-> EmptyDict, calls |-> 0]
        ELSE IF reply.kind = "raise"
        THEN [kind |-> "return", exc |-> "",
              value |-> ErrorAnswer("UpstreamUnavailable"), calls |-> 1]
        ELSE IF parsed.kind = "raise"
        THEN [kind |-> "return", exc |-> "", value |-> ErrorAnswer(parsed.exc),
              calls |-> 1]
        ELSE [kind |-> "return", exc |-> "", value |-> parsed.dict, calls |-> 1]

\* GeneratorAgent.generate_answer: reply is what _model.generate_content does
\* when it is called, calls the number of calls of generate_content
generate_answer(raw_query, retrieved_chunks, reply) ==
    LET parsed == GeneratorExtractJson(reply.text, raw_query)
    IN  IF retrieved_chunks = <<>>
        THEN [kind |-> "return", exc |-> "", value |-> NotFoundAnswer, calls |-> 0]
        ELSE IF ContextRaises(retrieved_chunks)
        THEN [kind |-> "raise", exc |-> "TypeError: can only join an iterable",
              value |-> EmptyDict, calls |-> 0]
        ELSE IF reply.kind = "raise"
        THEN [kind |-> "return", exc |-> "",
              value |-> ErrorAnswer("UpstreamUnavailable"), calls |-> 1]
        ELSE IF parsed.kind = "raise"
        THEN [kind |-> "return", exc |-> "", value |-> ErrorAnswer(parsed.exc),
              calls |-> 1]
        ELSE [kind |-> "return", exc |-> "", value |-> parsed.dict, calls |-> 1]

----------------------------------------------------------------------------
(* The class-level attributes of the agent classes and the three __init__. *)
(* A handle is the number of times it was assigned; 0 is None.             *)

ClassLevel ==
    [enhancer_initialized |-> FALSE, enhancer_model |-> 0,
     embedder |-> 0, pinecone_initialized |-> FALSE, index |-> 0,
     generator_initialized |-> FALSE, generator_model |-> 0]

\* QueryEnhancerAgent.__init__
QueryEnhancerAgent_init(h) ==
    IF ~h.enhancer_initialized
    THEN [h EXCEPT !.enhancer_model = @ + 1, !.enhancer_initialized = TRUE]
    ELSE h

\* RetrieverAgent.__init__
RetrieverAgent_init(h) ==
    LET h1 == IF h.embedder = 0 THEN [h EXCEPT !.embedder = @ + 1] ELSE h
    IN  IF ~h1.pinecone_initialized
        THEN [h1 EXCEPT !.index = @ + 1, !.pinecone_initialized = TRUE]
        ELSE h1

\* mutant: the model is created by every constructor call
GeneratorAgent_init_unguarded(h) ==
    [h EXCEPT !.generator_model = @ + 1, !.generator_initialized = TRUE]

\* GeneratorAgent.__init__
GeneratorAgent_init(h) ==
    IF ~h.generator_initialized
    THEN [h EXCEPT !.generator_model = @ + 1, !.generator_initialized = TRUE]
    ELSE h

\* enhancer = QueryEnhancerAgent(); retriever = RetrieverAgent();
\* generator = GeneratorAgent()
ConstructAgents(h) == GeneratorAgent_init(RetrieverAgent_init(QueryEnhancerAgent_init(h)))

\* the module-level agents that the import of handler.run constructs
ImportRun == ConstructAgents(ClassLevel)

----------------------------------------------------------------------------
(* handler/run.py                                                          *)

\* repr of a JSON value inside str(dict)
PyRepr(x) == IF x.ty = "str" THEN "'" \o x.v[1] \o "'" ELSE PyStr(x)

\* str(answer) of a dict, keys in the order the prompt's schema gives them
PyStrDict(d) ==
    LET order == <<"decision", "answer", "amount", "justification", "clauses">>
        keys == SelectSeq(order, LAMBDA k : k \in DOMAIN d)
    IN  "{" \o JoinStr([i \in 1..Len(keys) |->
                          "'" \o keys[i] \o "': " \o PyRepr(d[keys[i]])], ", ") \o "}"

RECURSIVE FirstTruthy(_, _)
FirstTruthy(answer, keys) ==
    IF keys = <<>> THEN PyStrDict(answer)
    ELSE IF Head(keys) \in DOMAIN answer /\ Truthy(answer[Head(keys)])
    THEN PyStr(answer[Head(keys)])
    ELSE FirstTruthy(answer, Tail(keys))

\* mutant: only the 'decision' key is read
extract_decision_only(answer) == FirstTruthy(answer, <<"decision">>)

\* extract_decision_from_answer
extract_decision_from_answer(answer) ==
    FirstTruthy(answer, <<"decision", "answer", "response", "content", "text">>)

TIMEOUT == 30

\* the default of process_questions_parallel, which get_answers_from_file takes
max_workers == 2

NoReply == [kind |-> "none", text |-> <<>>]

NoEmbed == [kind |-> "none", dense |-> <<>>, lw |-> <<>>]

NoIndex == [kind |-> "none", matches |-> <<>>]

\* what the upstream did for one unit: pro is the outcome of lines 33-36 (print,
\* agent construction), the rest are the replies of the network calls it made
NoEnv == [pro |-> "none", enh |-> NoReply, emb |-> NoEmbed, idx |-> NoIndex, gen |-> NoReply]

\* a concurrent.futures.Future: pending/running, finished with a result, or
\* finished with an exception
NoFuture == [state |-> "none", val |-> <<>>, exc |-> ""]

Returned(value) == [state |-> "result", val |-> value, exc |-> ""]

Raised(msg) == [state |-> "exception", val |-> <<>>, exc |-> msg]

SuccessResult(user_query, enhanced, chunks, answer) ==
    [question |-> user_query, enhanced |-> enhanced, chunks |-> chunks,
     answer |-> answer, generated_answer |-> extract_decision_from_answer(answer),
     status |-> "success"]

ErrorResult(user_query, msg) ==
    [question |-> user_query, error |-> msg, status |-> "error"]

\* process_single_question run alone, given what the upstream does for it
process_single_question(user_query, env) ==
    LET enhanced == enhance_query(user_query, env.enh)
        chunks == retrieve_and_rerank(enhanced.value, DefaultTopKFinal, DefaultAlpha,
                                      env.emb, env.idx)
        answer == generate_answer(user_query, chunks.value, env.gen)
    IN  IF env.pro = "raise" THEN Raised("OSError")
        ELSE IF enhanced.kind = "raise"
        THEN Returned(ErrorResult(user_query, enhanced.exc))
        ELSE IF chunks.kind = "raise"
        THEN Returned(ErrorResult(user_query, chunks.exc))
        ELSE IF answer.kind = "raise"
        THEN Returned(ErrorResult(user_query, answer.exc))
        ELSE Returned(SuccessResult(user_query, enhanced.value, chunks.value,
                                    answer.value))

\* future.result(timeout=30): the outcome of a finished future, TimeoutError
\* for one that does not finish within the timeout
FutureResult(fut) ==
    CASE fut.state = "result" -> [kind |-> "return", val |-> fut.val, exc |-> ""]
      [] fut.state = "exception" -> [kind |-> "raise", val |-> <<>>, exc |-> fut.exc]
      [] OTHER -> [kind |-> "raise", val |-> <<>>, exc |-> "TimeoutError"]

\* mutant: the loop without its try/except
CollectResult_no_except(rs, question, fut) ==
    LET r == FutureResult(fut)
    IN  IF r.kind = "return"
        THEN [kind |-> "return", results |-> Append(rs, r.val)]
        ELSE [kind |-> "raise", results |-> rs]

\* mutant: the except branch logs the failure and appends nothing
CollectResult_drop_failed(rs, question, fut) ==
    LET r == FutureResult(fut)
    IN  IF r.kind = "return"
        THEN [kind |-> "return", results |-> Append(rs, r.val)]
        ELSE [kind |-> "return", results |-> rs]

\* the body of `for future in as_completed(future_to_question)`
CollectResult(rs, question, fut) ==
    LET r == FutureResult(fut)
    IN  IF r.kind = "return"
        THEN [kind |-> "return", results |-> Append(rs, r.val)]
        ELSE [kind |-> "return",
              results |-> Append(rs, ErrorResult(question,
                                                 "Processing failed: " \o r.exc))]

\* {q: i for i, q in enumerate(questions)}: a repeated question keeps its last index
QuestionToIndex(qs) == [q \in Range(qs) |-> Max({i \in 1..Len(qs) : qs[i] = q})]

\* the sort key of one result
SortKey(x, qs) ==
    LET q == Get(x, "question", "")
    IN  IF q \in Range(qs) THEN QuestionToIndex(qs)[q] ELSE Len(qs) + 1

\* results.sort(key=...): list.sort is stable
RECURSIVE SortedFrom(_, _, _)
SortedFrom(rs, qs, k) ==
    IF k > Len(qs) + 1 THEN <<>>
    ELSE SelectSeq(rs, LAMBDA x : SortKey(x, qs) = k) \o SortedFrom(rs, qs, k + 1)

SortResults(rs, qs) == SortedFrom(rs, qs, 1)

\* the string get_answers_from_file appends for one result
AnswerOf(result) ==
    IF Get(result, "status", "") = "success"
    THEN Get(result, "generated_answer", "")
    ELSE "Error: " \o Get(result, "error", "Unknown error")

\* what _model.generate_content can do for the enhancer: raise, or answer with a text
Interleave(ms, sep) ==
    Flatten([i \in 1..Len(ms) |-> IF i = 1 THEN <<ms[i]>> ELSE <<sep, ms[i]>>])

ObjectTexts(members, n) ==
    {pre \o <<"{">> \o Interleave(ms, ",") \o trail \o <<"}">> \o post :
        ms \in SeqsUpTo(members, n),
        trail \in {<<>>, <<",">>, <<",", "\n">>},
        pre \in {<<>>, <<"prose">>},
        post \in {<<>>, <<"prose">>}}

FreeTexts(n) == SeqsUpTo({"{", "}", ",", " ", "prose", "intent=str"}, n)

EnhancerReplies ==
    {[kind |-> "raise", text |-> <<>>]}
        \cup {[kind |-> "text", text |-> t] :
                t \in ObjectTexts(EnhMembers, MaxMembers) \cup FreeTexts(MaxProse)}

NoEnhancerResult == [kind |-> "none", exc |-> "", value |-> FallbackQuery("")]

EnhIdle ==
    [pc |-> "idle", query |-> "", reply |-> [kind |-> "raise", text |-> <<>>],
     result |-> NoEnhancerResult]

NoRetrieverResult == [kind |-> "none", exc |-> "", value |-> <<>>, queries |-> <<>>]

RetIdle ==
    [pc |-> "idle", enhanced |-> FallbackQuery(""), top_k_final |-> 0, alpha |-> 0,
     emb |-> [kind |-> "raise", dense |-> <<>>, lw |-> <<>>],
     idx |-> [kind |-> "raise", matches |-> <<>>], result |-> NoRetrieverResult]

NoGeneratorResult ==
    [kind |-> "none", exc |-> "", value |-> EmptyDict, calls |-> 0]

GenIdle ==
    [pc |-> "idle", op |-> "", raw_query |-> "", chunks |-> <<>>,
     reply |-> [kind |-> "raise", text |-> <<>>], result |-> NoGeneratorResult]

BatchIdle ==
    /\ questions = <<>>
    /\ main = "idle"
    /\ unit = <<>>
    /\ results = <<>>
    /\ answers = <<>>
    /\ elapsed = 0
    /\ handles = ImportRun

InitEnhancer ==
    /\ BatchIdle
    /\ ret = RetIdle
    /\ gen = GenIdle
    /\ enh \in {[pc |-> "call", query |-> q, reply |-> r, result |-> NoEnhancerResult] :
                    q \in QuestionSet, r \in EnhancerReplies}

\* one call enhancer.enhance_query(user_query)
EnhanceCall ==
    /\ enh.pc = "call"
    /\ LET r == enhance_query(enh.query, enh.reply)
       IN  enh' = [enh EXCEPT !.pc = IF r.kind = "raise" THEN "raised" ELSE "returned",
                              !.result = r]
    /\ UNCHANGED <<batchVars, ret, gen>>

NextEnhancer == EnhanceCall

SpecEnhancer == InitEnhancer /\ [][NextEnhancer]_vars

----------------------------------------------------------------------------
(* One call of retrieve_and_rerank on every input within the bounds.       *)

MaxTopK == 2

EmbedReplies ==
    {[kind |-> "raise", dense |-> <<>>, lw |-> <<>>],
     [kind |-> "novector", dense |-> <<>>, lw |-> <<>>],
     [kind |-> "ok", dense |-> <<2, 3>>,
      lw |-> <<[idx |-> 7, val |-> 4], [idx |-> 9, val |-> 0]>>]}

Matches(metas) == [id : {"a", "b"}, score : {1, 2}, metadata : metas]

IndexReplies(metas, n) ==
    {[kind |-> "raise", matches |-> <<>>]}
        \cup {[kind |-> "ok", matches |-> m] : m \in SeqsUpTo(Matches(metas), n)}

EnhancedInputs ==
    {FallbackQuery("qA"),
     [intent |-> "waiting_period", entities |-> <<"pre-existing diseases">>,
      keywords |-> JList(<<"PED">>), conditions |-> JNull, raw_query |-> "qB"]}

AlphaValues == -2..12

InitRetriever ==
    /\ BatchIdle
    /\ enh = EnhIdle
    /\ gen = GenIdle
    /\ ret \in {[pc |-> "call", enhanced |-> e, top_k_final |-> k, alpha |-> a,
                 emb |-> em, idx |-> ix, result |-> NoRetrieverResult] :
                    e \in EnhancedInputs, k \in 1..MaxTopK, a \in AlphaValues,
                    em \in EmbedReplies, ix \in IndexReplies({"full"}, MaxMatches)}

\* one call retriever.retrieve_and_rerank(enhanced, top_k_final=k, alpha=a)
RetrieveCall ==
    /\ ret.pc = "call"
    /\ LET r == retrieve_and_rerank(ret.enhanced, ret.top_k_final, ret.alpha,
                                    ret.emb, ret.idx)
       IN  ret' = [ret EXCEPT !.pc = IF r.kind = "raise" THEN "raised" ELSE "returned",
                              !.result = r]
    /\ UNCHANGED <<batchVars, enh, gen>>

NextRetriever == RetrieveCall

SpecRetriever == InitRetriever /\ [][NextRetriever]_vars

----------------------------------------------------------------------------
(* One call of generate_answer, or of _extract_json, on every input within *)
(* the bounds.                                                             *)

\* the chunk sequences the retriever can hand over
ChunkInputs ==
    SeqsUpTo({[score |-> 2, metadata |-> "full"],
              [score |-> 1, metadata |-> "null_section"]}, 2)

\* texts of the generator's model: an object, bare or inside a code fence, whose
\* members may hold the defects the recovery parser is written for
GeneratorTexts ==
    {pre \o <<"{">> \o Interleave(ms, ",") \o trail \o <<"}">> \o post :
        ms \in SeqsUpTo({"decision=str", "justification=str",
                         "justification=escaped_backslash"} \cup BrokenMembers,
                        MaxMembers),
        trail \in {<<>>, <<",">>, <<",", "\n">>},
        pre \in {<<>>, <<"FENCE_JSON", "\n">>},
        post \in {<<>>, <<"\n", "FENCE">>, <<"prose">>}}

\* texts without an object
BraceTexts == SeqsUpTo({"{", "}", "prose", "decision=str"}, MaxProse)

\* what _model.generate_content can do for the generator: raise, or answer with
\* a text
GeneratorReplies ==
    {[kind |-> "raise", text |-> <<>>]}
        \cup {[kind |-> "text", text |-> t] :
                t \in {x \in GeneratorTexts : Len(x) <= 3} \cup BraceTexts}

InitGenerator ==
    /\ BatchIdle
    /\ enh = EnhIdle
    /\ ret = RetIdle
    /\ gen \in {[pc |-> "call", op |-> "generate_answer", raw_query |-> q,
                  chunks |-> c, reply |-> r, result |-> NoGeneratorResult] :
                    q \in QuestionSet, c \in ChunkInputs, r \in GeneratorReplies}
               \cup {[pc |-> "call", op |-> "_extract_json", raw_query |-> "qA",
                      chunks |-> <<>>, reply |-> [kind |-> "text", text |-> t],
                      result |-> NoGeneratorResult] :
                        t \in GeneratorTexts \cup BraceTexts}

\* one call generator.generate_answer(raw_query, retrieved_chunks)
GenerateCall ==
    /\ gen.pc = "call"
    /\ gen.op = "generate_answer"
    /\ LET r == generate_answer(gen.raw_query, gen.chunks,
                                IF GeneratorCallsModel(gen.chunks)
                                THEN gen.reply ELSE NoReply)
       IN  gen' = [gen EXCEPT !.pc = IF r.kind = "raise" THEN "raised" ELSE "returned",
                              !.result = r]
    /\ UNCHANGED <<batchVars, enh, ret>>

\* one call GeneratorAgent._extract_json(text)
ExtractCall ==
    /\ gen.pc = "call"
    /\ gen.op = "_extract_json"
    /\ LET r == GeneratorExtractJson(gen.reply.text, gen.raw_query)
       IN  gen' = [gen EXCEPT !.pc = IF r.kind = "raise" THEN "raised" ELSE "returned",
                              !.result = [kind |-> r.kind, exc |-> r.exc,
                                          value |-> r.dict, calls |-> 0]]
    /\ UNCHANGED <<batchVars, enh, ret>>

NextGenerator == GenerateCall \/ ExtractCall

SpecGenerator == InitGenerator /\ [][NextGenerator]_vars

----------------------------------------------------------------------------
(* get_answers_from_file(file_path, questions): the batch run.             *)

BatchEnhReplies ==
    {[kind |-> "text",
      text |-> <<"{", "intent=str", ",", "entities=list", ",", "raw_query=echo", "}">>]}

BatchEmbReplies == {e \in EmbedReplies : e.kind \in {"raise", "ok"}}

BatchIdxReplies ==
    {[kind |-> "raise", matches |-> <<>>],
     [kind |-> "ok", matches |-> <<[id |-> "a", score |-> 2, metadata |-> "full"]>>],
     [kind |-> "ok",
      matches |-> <<[id |-> "b", score |-> 1, metadata |-> "null_section"]>>]}

BatchGenReplies ==
    {[kind |-> "raise", text |-> <<>>],
     [kind |-> "text", text |-> <<"{", "decision=str", ",", "amount=null", "}">>],
     [kind |-> "text", text |-> <<"FENCE_JSON", "\n", "{", "answer=str", "}">>]}

PendingUnit ==
    [pc |-> "pending", env |-> NoEnv, enhanced |-> FallbackQuery(""), chunks |-> <<>>,
     fut |-> NoFuture, yielded |-> FALSE]

\* mutant: future_to_question keyed by the question, one future per distinct string
SubmittedUnits_by_question(qs) == [i \in 1..Cardinality(Range(qs)) |-> PendingUnit]

\* future_to_question: one future per element of `questions`
SubmittedUnits(qs) == [i \in 1..Len(qs) |-> PendingUnit]

Units == DOMAIN unit

\* the units that hold a worker thread of the pool
Running == {i \in Units : unit[i].pc \in {"enhance", "retrieve", "generate", "hung"}}

\* mutant: a pool that starts every queued work item at once
WorkerFree_unbounded == TRUE

\* a worker thread of the pool is idle
WorkerFree == Cardinality(Running) < max_workers

\* the futures as_completed can yield next
AsCompleted == {i \in Units : unit[i].pc = "done" /\ ~unit[i].yielded}

Init ==
    /\ questions \in SeqsUpTo(QuestionSet, MaxQuestions)
    /\ main = "call"
    /\ unit = <<>>
    /\ results = <<>>
    /\ answers = <<>>
    /\ elapsed = 0
    /\ handles = ImportRun
    /\ enh = EnhIdle
    /\ ret = RetIdle
    /\ gen = GenIdle

\* `if not questions: return []`
ReturnEmpty ==
    /\ main = "call"
    /\ questions = <<>>
    /\ results' = <<>>
    /\ main' = "returned"
    /\ UNCHANGED <<questions, unit, answers, elapsed, handles, enh, ret, gen>>

\* executor.submit(process_single_question, question) for every question
Submit ==
    /\ main = "call"
    /\ questions # <<>>
    /\ unit' = SubmittedUnits(questions)
    /\ main' = "collecting"
    /\ UNCHANGED <<questions, results, answers, elapsed, handles, enh, ret, gen>>

\* a free worker thread takes the oldest queued work item and runs lines 29-36,
\* which are outside the try
Start(i) ==
    /\ unit[i].pc = "pending"
    /\ \A j \in Units : unit[j].pc = "pending" => i <= j
    /\ WorkerFree
    /\ \E p \in {"ok", "raise"} :
          /\ unit' = [unit EXCEPT ![i].env.pro = p,
                                  ![i].pc = IF p = "ok" THEN "enhance" ELSE "done",
                                  ![i].fut = IF p = "ok" THEN NoFuture
                                             ELSE Raised("OSError")]
          /\ handles' = IF p = "ok" THEN ConstructAgents(handles) ELSE handles
    /\ UNCHANGED <<questions, main, results, answers, elapsed, enh, ret, gen>>

\* enhanced = enhancer.enhance_query(user_query)
Enhance(i) ==
    /\ unit[i].pc = "enhance"
    /\ \E r \in BatchEnhReplies :
          LET e == enhance_query(questions[i], r)
          IN  unit' = IF e.kind = "raise"
                      THEN [unit EXCEPT ![i].env.enh = r, ![i].pc = "done",
                                        ![i].fut = Returned(ErrorResult(questions[i], e.exc))]
                      ELSE [unit EXCEPT ![i].env.enh = r, ![i].pc = "retrieve",
                                        ![i].enhanced = e.value]
    /\ UNCHANGED <<questions, main, results, answers, elapsed, handles, enh, ret, gen>>

\* chunks = retriever.retrieve_and_rerank(enhanced)
Retrieve(i) ==
    /\ unit[i].pc = "retrieve"
    /\ \E em \in BatchEmbReplies :
       \E ix \in IF em.kind = "ok" THEN BatchIdxReplies ELSE {NoIndex} :
          LET c == retrieve_and_rerank(unit[i].enhanced, DefaultTopKFinal, DefaultAlpha,
                                       em, ix)
          IN  unit' = IF c.kind = "raise"
                      THEN [unit EXCEPT ![i].env.emb = em, ![i].env.idx = ix,
                                        ![i].pc = "done",
                                        ![i].fut = Returned(ErrorResult(questions[i], c.exc))]
                      ELSE [unit EXCEPT ![i].env.emb = em, ![i].env.idx = ix,
                                        ![i].pc = "generate", ![i].chunks = c.value]
    /\ UNCHANGED <<questions, main, results, answers, elapsed, handles, enh, ret, gen>>

\* answer = generator.generate_answer(user_query, chunks), the extraction of the
\* decision and the return of the result
Generate(i) ==
    /\ unit[i].pc = "generate"
    /\ \E r \in IF GeneratorCallsModel(unit[i].chunks) THEN BatchGenReplies ELSE {NoReply} :
          LET a == generate_answer(questions[i], unit[i].chunks, r)
          IN  unit' = [unit EXCEPT
                          ![i].env.gen = r,
                          ![i].pc = "done",
                          ![i].fut =
                              IF a.kind = "raise"
                              THEN Returned(ErrorResult(questions[i], a.exc))
                              ELSE Returned(SuccessResult(questions[i], unit[i].enhanced,
                                                          unit[i].chunks, a.value))]
    /\ UNCHANGED <<questions, main, results, answers, elapsed, handles, enh, ret, gen>>

\* the network call the unit is about to make never answers
Hang(i) ==
    /\ \/ unit[i].pc \in {"enhance", "retrieve"}
       \/ unit[i].pc = "generate" /\ GeneratorCallsModel(unit[i].chunks)
    /\ unit' = [unit EXCEPT ![i].pc = "hung"]
    /\ UNCHANGED <<questions, main, results, answers, elapsed, handles, enh, ret, gen>>

\* one turn of `for future in as_completed(future_to_question)`
Collect(i) ==
    /\ main = "collecting"
    /\ i \in AsCompleted
    /\ LET r == CollectResult(results, questions[i], unit[i].fut)
       IN  /\ results' = r.results
           /\ main' = IF r.kind = "raise" THEN "raised" ELSE main
    /\ unit' = [unit EXCEPT ![i].yielded = TRUE]
    /\ UNCHANGED <<questions, answers, elapsed, handles, enh, ret, gen>>

\* as_completed is exhausted, the pool shuts down, the results are sorted
SortAndReturn ==
    /\ main = "collecting"
    /\ \A i \in Units : unit[i].yielded
    /\ results' = SortResults(results, questions)
    /\ main' = "returned"
    /\ UNCHANGED <<questions, unit, answers, elapsed, handles, enh, ret, gen>>

\* the loop of get_answers_from_file over the results
GetAnswers ==
    /\ main = "returned"
    /\ answers' = [i \in 1..Len(results) |-> AnswerOf(results[i])]
    /\ main' = "answered"
    /\ UNCHANGED <<questions, unit, results, elapsed, handles, enh, ret, gen>>

\* the collector waits in as_completed on futures that cannot finish: every unit
\* left is hung, or queued behind hung units
Blocked ==
    /\ main = "collecting"
    /\ AsCompleted = {}
    /\ \E i \in Units : unit[i].pc = "hung"
    /\ \A i \in Units :
          \/ unit[i].pc \in {"hung", "done"}
          \/ unit[i].pc = "pending" /\ Cardinality(Running) >= max_workers

\* the collector has waited in as_completed for the whole timeout
TimeoutElapses ==
    /\ Blocked
    /\ elapsed < TIMEOUT
    /\ elapsed' = TIMEOUT
    /\ UNCHANGED <<questions, main, unit, results, answers, handles, enh, ret, gen>>

Next ==
    \/ ReturnEmpty
    \/ Submit
    \/ \E i \in Units : Start(i)
    \/ \E i \in Units : Enhance(i)
    \/ \E i \in Units : Retrieve(i)
    \/ \E i \in Units : Generate(i)
    \/ \E i \in Units : Hang(i)
    \/ \E i \in Units : Collect(i)
    \/ SortAndReturn
    \/ GetAnswers
    \/ TimeoutElapses

Spec == Init /\ [][Next]_vars

\* the steps of the thread that runs process_questions_parallel and its caller
Collector ==
    \/ ReturnEmpty
    \/ Submit
    \/ \E i \in Units : Collect(i)
    \/ SortAndReturn
    \/ GetAnswers
    \/ TimeoutElapses

\* the collecting thread takes every step it can take; nothing is required of the
\* worker threads, whose network calls may never answer
FairSpec == Spec /\ WF_vars(Collector)

----------------------------------------------------------------------------
(* Claims about the batch run, checked under Spec and FairSpec.            *)

HasReturned == main \in {"returned", "answered"}

Occurrences(seq, x) == Cardinality({k \in 1..Len(seq) : seq[k] = x})

ResultQuestions == [k \in 1..Len(results) |-> Get(results[k], "question", "")]

\* C1: for a non-empty list of questions, whatever the completion order, the
\* batch returns one result per submitted question: as many results as
\* questions, and the 'question' fields are the input strings, each as often as
\* it was submitted.
C1_OneResultPerQuestion ==
    (HasReturned /\ questions # <<>>) =>
        /\ Len(results) = Len(questions)
        /\ \A k \in 1..Len(results) : "question" \in DOMAIN results[k]
        /\ \A q \in QuestionSet \cup Range(ResultQuestions) :
              Occurrences(ResultQuestions, q) = Occurrences(questions, q)

\* a returned batch of three with a repeated question, a failed future and a success
C1_Witness ==
    /\ main = "returned"
    /\ questions = <<"qA", "qB", "qA">>
    /\ unit[1].fut.state = "exception"
    /\ unit[3].fut.state = "result"
    /\ \E k \in 1..Len(results) : results[k].status = "success"

\* C2: the i-th result returned has 'question' equal to the i-th input question,
\* also when a question string occurs more than once.
C2_OutputOrderIsInputOrder ==
    HasReturned =>
        /\ Len(results) = Len(questions)
        /\ \A i \in 1..Len(results) : Get(results[i], "question", "") = questions[i]

HungPastTimeout(i) ==
    /\ i \in Units
    /\ unit[i].pc = "hung"
    /\ elapsed >= TIMEOUT
    /\ \A j \in Units \ {i} : unit[j].pc = "done"

ReturnedWithErrorAt(i) ==
    /\ HasReturned
    /\ i <= Len(results)
    /\ Get(results[i], "status", "") = "error"
    /\ Get(results[i], "question", "") = questions[i]

\* C3: when one unit never completes and the others complete, then once the
\* timeout has elapsed the batch returns, with an error result at the hung unit's
\* input position.
C3_HungUnitTimesOut ==
    \A i \in 1..MaxQuestions : HungPastTimeout(i) ~> ReturnedWithErrorAt(i)

\* what the batch owes unit i: the outcome of process_single_question run alone
\* on its question with the upstream replies the unit got
StandaloneResult(i) ==
    LET f == process_single_question(questions[i], unit[i].env)
    IN  IF f.state = "result" THEN f.val
        ELSE ErrorResult(questions[i], "Processing failed: " \o f.exc)

UnitFailed(i) ==
    \/ unit[i].fut.state = "exception"
    \/ unit[i].fut.state = "result" /\ unit[i].fut.val.status = "error"

\* C4: when the batch returns every unit has run to completion, the results are
\* the units' standalone results, each once (so a unit's result does not depend
\* on what happened to the others), and a unit whose processing raised has a
\* result with status 'error' and an error message.
C4_FailureIsolation ==
    HasReturned =>
        /\ \A i \in Units : unit[i].pc = "done"
        /\ \A x \in {StandaloneResult(i) : i \in Units} \cup Range(results) :
              Occurrences(results, x)
                  = Cardinality({i \in Units : StandaloneResult(i) = x})
        /\ \A i \in Units :
              UnitFailed(i) =>
                  /\ StandaloneResult(i).status = "error"
                  /\ StandaloneResult(i).error # ""
                  /\ StandaloneResult(i).question = questions[i]

\* a returned batch in which the first unit raised outside its try, the second
\* raised in retrieval, and the third succeeded
C4_Witness ==
    /\ main = "returned"
    /\ Len(questions) = 3
    /\ unit[1].fut.state = "exception"
    /\ unit[2].fut.state = "result" /\ unit[2].fut.val.status = "error"
    /\ unit[3].fut.state = "result" /\ unit[3].fut.val.status = "success"

\* some step of the batch run is possible: the caller or a worker thread can go on
CanProceed ==
    \/ main \in {"call", "returned"}
    \/ /\ main = "collecting"
       /\ \/ AsCompleted # {}
          \/ \A i \in Units : unit[i].yielded
          \/ \E i \in Units : unit[i].pc \in {"enhance", "retrieve", "generate"}
          \/ /\ \E i \in Units : unit[i].pc = "pending"
             /\ WorkerFree

\* C5: the batch call never raises to its caller, and when every upstream call
\* returns or raises it runs on until get_answers_from_file has returned.
C5_NeverRaises ==
    /\ main # "raised"
    /\ (\A i \in Units : unit[i].pc # "hung") => (main = "answered" \/ CanProceed)

\* get_answers_from_file has returned although a future raised and a pipeline failed
C5_Witness ==
    /\ main = "answered"
    /\ \E i \in Units : unit[i].fut.state = "exception"
    /\ \E i \in Units : unit[i].fut.state = "result" /\ unit[i].fut.val.status = "error"
    /\ Len(answers) = Len(questions)

\* C6: get_answers_from_file returns one string per question, in input order,
\* the i-th being the 'decision' field of the i-th question's answer when it was
\* processed successfully and 'Error: <message>' when its processing failed.
C6_DecisionOrError ==
    main = "answered" =>
        /\ Len(answers) = Len(questions)
        /\ \A i \in 1..Len(answers) :
              LET r == StandaloneResult(i)
              IN  IF r.status = "success"
                  THEN /\ "decision" \in DOMAIN r.answer
                       /\ answers[i] = PyStr(r.answer["decision"])
                  ELSE answers[i] = "Error: " \o r.error

FallbackKeys == <<"answer", "response", "content", "text">>

\* C6 as amended: one string per question, in the order of the results of
\* process_questions_parallel; for a success result the text of its answer's
\* 'decision' when that is non-empty, else of a non-empty 'answer', 'response',
\* 'content' or 'text', else str(answer); for an error result 'Error: <message>'.
C6_AnswerStrings ==
    main = "answered" =>
        /\ Len(answers) = Len(questions)
        /\ \A k \in 1..Len(answers) :
              LET r == results[k]
                  a == r.answer
                  truthy == {key \in Range(FallbackKeys) :
                                key \in DOMAIN a /\ Truthy(a[key])}
              IN  IF r.status # "success" THEN answers[k] = "Error: " \o r.error
                  ELSE IF "decision" \in DOMAIN a /\ Truthy(a["decision"])
                  THEN answers[k] = PyStr(a["decision"])
                  ELSE IF truthy = {} THEN answers[k] = PyStrDict(a)
                  ELSE answers[k] \in {PyStr(a[key]) : key \in truthy}

\* an answered batch holding an answer without 'decision' and an error
C6_Witness ==
    /\ main = "answered"
    /\ \E k \in 1..Len(results) :
          /\ results[k].status = "success"
          /\ "decision" \notin DOMAIN results[k].answer
          /\ answers[k] = "36 months"
    /\ \E k \in 1..Len(results) :
          results[k].status = "error" /\ answers[k] = "Error: " \o results[k].error

----------------------------------------------------------------------------
(* Claims about the Query Enhancer, checked under SpecEnhancer.            *)

\* the reply holds no '{' or no '}'
NoJsonObject(text) == Positions(text, "{") = {} \/ Positions(text, "}") = {}

\* two commas in a row: no JSON text holds them outside a string
AdjacentCommas(text) == \E i \in 1..(Len(text) - 1) : text[i] = "," /\ text[i + 1] = ","

\* a required field of EnhancedQuery is named by no member of the reply
MissingRequired(text) ==
    \E k \in {"intent", "entities", "raw_query"} :
        \A i \in 1..Len(text) : text[i] \in MemberTokens => MemberKey(text[i]) # k

FailingReply(reply) ==
    \/ reply.kind = "raise"
    \/ NoJsonObject(reply.text)
    \/ AdjacentCommas(reply.text)
    \/ MissingRequired(reply.text)

\* C7: enhance_query never raises; when the text-generation call raises, or its
\* text holds no JSON object, JSON that does not parse, or JSON without a
\* required field, the call returns intent "general_query", entities
\* [raw_query], raw_query = raw_query, keywords and conditions null.
C7_EnhanceFallsBack ==
    /\ enh.pc # "raised"
    /\ (enh.pc = "returned" /\ FailingReply(enh.reply)) =>
          /\ enh.result.kind = "return"
          /\ enh.result.value =
                [intent |-> "general_query", entities |-> <<enh.query>>,
                 keywords |-> JNull, conditions |-> JNull, raw_query |-> enh.query]

\* a reply whose JSON parses but lacks raw_query has been answered with the fallback
C7_Witness ==
    /\ enh.pc = "returned"
    /\ enh.reply.kind = "text"
    /\ enh.reply.text = <<"prose", "{", "intent=str", ",", "entities=list", ",", "}">>
    /\ enh.result.value.intent = "general_query"

\* C8: the EnhancedQuery returned by enhance_query has raw_query equal to the
\* input question, on the success path as on the fallback path.
C8_RawQueryVerbatim ==
    enh.pc = "returned" => enh.result.value.raw_query = enh.query

----------------------------------------------------------------------------
(* Claims about the Hybrid Retriever, checked under SpecRetriever.         *)

\* C9: with alpha in [0,1], if the index query raises, or the embedding step
\* raises or produces no query vector, retrieve_and_rerank returns an empty
\* sequence and does not raise.
C9_FailsClosed ==
    (/\ ret.pc \in {"returned", "raised"}
     /\ ret.alpha >= 0 /\ ret.alpha <= 10
     /\ (ret.idx.kind = "raise" \/ ret.emb.kind # "ok")) =>
        (ret.pc = "returned" /\ ret.result.value = <<>>)

\* C10: for every alpha < 0 or alpha > 1 hybrid scoring raises the ValueError
\* and the call of retrieve_and_rerank issues no query to the vector index.
C10_AlphaOutsideRange ==
    (ret.pc \in {"returned", "raised"} /\ (ret.alpha < 0 \/ ret.alpha > 10)) =>
        /\ ret.result.queries = <<>>
        /\ ret.pc = "raised"
        /\ ret.emb.kind = "ok" => ret.result.exc = "Alpha must be between 0 and 1"

\* alpha = 1.1 with a working embedder and an index that would have answered
C10_Witness ==
    /\ ret.pc = "raised"
    /\ ret.alpha = 11
    /\ ret.emb.kind = "ok"
    /\ ret.idx.kind = "ok" /\ Len(ret.idx.matches) = 2
    /\ ret.result.queries = <<>>

\* the ids of the matches the index returned
MatchIds == {ret.idx.matches[i].id : i \in 1..Len(ret.idx.matches)}

\* the call returned chunks made from an index response
ReturnedFromIndex ==
    /\ ret.pc = "returned"
    /\ ret.emb.kind = "ok"
    /\ ret.idx.kind = "ok"

\* C11 as stated: for every sequence of matches returned by the index and every
\* top_k_final, the sequence returned by retrieve_and_rerank has length at most
\* top_k_final.
C11_LengthAtMostTopK ==
    ret.pc = "returned" => Len(ret.result.value) <= ret.top_k_final

\* C11 as the code has it: retrieve_and_rerank asks the index for top_k_final
\* matches and does not truncate the response; it returns one chunk per distinct
\* id of the response, so at most as many chunks as the index returned, and at
\* most top_k_final whenever the index returned no more matches than asked for.
C11_LengthAtMostResponse ==
    ReturnedFromIndex =>
        /\ Len(ret.result.queries) = 1
        /\ ret.result.queries[1].top_k = ret.top_k_final
        /\ Len(ret.result.value) = Cardinality(MatchIds)
        /\ Len(ret.result.value) <= Len(ret.idx.matches)
        /\ Len(ret.idx.matches) <= ret.top_k_final =>
              Len(ret.result.value) <= ret.top_k_final

\* the index answered top_k_final = 2 with two matches of one id: one chunk
C11_Witness ==
    /\ ReturnedFromIndex
    /\ ret.top_k_final = 2
    /\ Len(ret.idx.matches) = 2
    /\ Cardinality(MatchIds) = 1
    /\ Len(ret.result.value) = 1

\* the position in the index response of the first match with the id of match j
FirstOccurrence(j) ==
    Min({k \in 1..Len(ret.idx.matches) : ret.idx.matches[k].id = ret.idx.matches[j].id})

\* the positions of the index response whose match is the first of its id
KeptPositions == {j \in 1..Len(ret.idx.matches) : FirstOccurrence(j) = j}

\* the k-th smallest position of S
RECURSIVE Nth(_, _)
Nth(S, k) == IF k = 1 THEN Min(S) ELSE Nth(S \ {Min(S)}, k - 1)

\* C12: the chunks returned by one call correspond to pairwise distinct match
\* ids; of every id in the response only the first occurrence is kept, the kept
\* matches are in the order the index returned them, and each chunk carries the
\* score and the metadata of its match.
C12_Deduplication ==
    ReturnedFromIndex =>
        /\ Len(ret.result.value) = Cardinality(KeptPositions)
        /\ \A k \in 1..Len(ret.result.value) :
              LET m == ret.idx.matches[Nth(KeptPositions, k)]
              IN  /\ ret.result.value[k].score = m.score
                  /\ ret.result.value[k].metadata = m.metadata

\* a response b, a, b whose two b matches differ in score: the chunks are the
\* first b and the a
C12_Witness ==
    /\ ReturnedFromIndex
    /\ Len(ret.idx.matches) = 3
    /\ ret.idx.matches[1].id = "b"
    /\ ret.idx.matches[2].id = "a"
    /\ ret.idx.matches[3].id = "b"
    /\ ret.idx.matches[1].score # ret.idx.matches[3].score
    /\ Len(ret.result.value) = 2
    /\ ret.result.value[1].score = ret.idx.matches[1].score

\* a call of generate_answer that is over
GenerateAnswerDone == gen.op = "generate_answer" /\ gen.pc \in {"returned", "raised"}

\* a call of _extract_json that is over
ExtractJsonDone == gen.op = "_extract_json" /\ gen.pc \in {"returned", "raised"}

\* C13: generate_answer called with an empty chunk sequence returns exactly the
\* fixed "Not Found" object and makes no call to the text-generation capability.
C13_EmptyChunksNotFound ==
    (GenerateAnswerDone /\ gen.chunks = <<>>) =>
        /\ gen.pc = "returned"
        /\ gen.result.calls = 0
        /\ gen.result.value =
              [decision |-> [ty |-> "str", v |-> <<"Not Found">>],
               amount |-> [ty |-> "null", v |-> <<>>],
               justification |->
                  [ty |-> "str",
                   v |-> <<"Could not find relevant information in the provided documents.">>],
               clauses |-> [ty |-> "list", v |-> <<>>]]

\* generate_answer("qB", []) has returned, with a model that would have answered
C13_Witness ==
    /\ GenerateAnswerDone
    /\ gen.raw_query = "qB"
    /\ gen.chunks = <<>>
    /\ gen.reply.kind = "text"
    /\ Get(gen.result.value, "decision", JNull) = JStr("Not Found")

\* C14: generate_answer never propagates an exception: for every non-empty chunk
\* sequence, whatever the chunks' metadata holds, a failure while building the
\* context, calling the model or parsing its output gives the "Error" answer
\* object, so every call returns an answer object.
C14_NeverPropagates ==
    (GenerateAnswerDone /\ gen.chunks # <<>>) =>
        /\ gen.pc = "returned"
        /\ (ContextRaises(gen.chunks) \/ gen.reply.kind = "raise") =>
              /\ Get(gen.result.value, "decision", JNull) = JStr("Error")
              /\ Get(gen.result.value, "amount", JStr("")) = JNull
              /\ Get(gen.result.value, "clauses", JNull) = JList(<<>>)

\* the text between the first "{" and the last "}" of a text
BraceSpan(text) ==
    LET opens == {i \in 1..Len(text) : text[i] = "{"}
        closes == {i \in 1..Len(text) : text[i] = "}"}
    IN  IF opens # {} /\ closes # {} /\ Min(opens) < Max(closes)
        THEN SubSeq(text, Min(opens), Max(closes)) ELSE <<>>

\* the object the model meant: the strings without their defect, no whitespace,
\* no comma before the closing brace
MeantObject(span) ==
    LET t == SelectSeq(span, LAMBDA x : ~IsSpace(x))
        m == [i \in 1..Len(t) |-> IF t[i] \in BrokenMembers THEN "justification=str"
                                  ELSE t[i]]
        n == Len(m)
    IN  IF n >= 3 /\ m[n - 1] = "," /\ m[n] = "}"
        THEN SubSeq(m, 1, n - 2) \o <<"}">> ELSE m

InvalidEscapes(span) ==
    Cardinality({i \in 1..Len(span) :
                    span[i] \in {"justification=bad_escape",
                                 "justification=bad_unicode_escape"}})

\* the span is a valid object apart from newlines, trailing commas and at most one
\* invalid backslash escape
ValidApartFromDefects(text) ==
    /\ BraceSpan(text) # <<>>
    /\ JsonLoads(MeantObject(BraceSpan(text)), "qA").ok
    /\ InvalidEscapes(BraceSpan(text)) <= 1

\* C15: for every generator output whose span from the first "{" to the last "}"
\* is a valid JSON object apart from embedded newlines, trailing commas or one
\* invalid backslash escape, _extract_json returns a record and does not raise.
C15_RecoveryParses ==
    (ExtractJsonDone /\ ValidApartFromDefects(gen.reply.text)) => gen.pc = "returned"

\* C16: for every text that holds no "{" or no "}", _extract_json raises the
\* ValueError "No valid JSON object found in LLM response." and returns no record.
C16_NoJsonFound ==
    (/\ ExtractJsonDone
     /\ \/ \A i \in 1..Len(gen.reply.text) : gen.reply.text[i] # "{"
        \/ \A i \in 1..Len(gen.reply.text) : gen.reply.text[i] # "}") =>
        /\ gen.pc = "raised"
        /\ gen.result.exc = "No valid JSON object found in LLM response."
        /\ gen.result.value = EmptyDict

\* _extract_json has raised on a text with a "{" and no "}"
C16_Witness ==
    /\ ExtractJsonDone
    /\ gen.reply.text = <<"{", "decision=str", "prose">>
    /\ gen.pc = "raised"

\* the units that have run their three constructors
Constructed == {i \in Units : unit[i].env.pro = "ok"}

\* C17: under every interleaving of the units, each shared client handle (the two
\* text-generation models, the embedder, the vector index) is initialized at
\* most once, and after the initialization no unit writes a class-level handle.
C17_HandlesInitializedOnce ==
    /\ handles.enhancer_model <= 1
    /\ handles.embedder <= 1
    /\ handles.index <= 1
    /\ handles.generator_model <= 1
    /\ handles = ImportRun

\* two units are in their chains at once, both past their constructors, and
\* every handle has been assigned exactly once
C17_Witness ==
    /\ Cardinality(Constructed \cap Running) = 2
    /\ handles.enhancer_model = 1
    /\ handles.embedder = 1
    /\ handles.index = 1
    /\ handles.generator_model = 1

\* C18: at most max_workers units execute their chain at the same time, and each
\* question is processed by exactly one unit: one unit per position of the
\* question list, whose result is about the question at that position.
C18_BoundedParallelism ==
    /\ Cardinality(Running) <= max_workers
    /\ main \in {"collecting", "returned", "answered"} /\ questions # <<>> =>
          /\ Units = 1..Len(questions)
          /\ \A i \in Units :
                unit[i].fut.state = "result" => unit[i].fut.val.question = questions[i]

\* three questions: two units in their chains, the third still queued
C18_Witness ==
    /\ Len(questions) = MaxQuestions
    /\ Cardinality(Running) = max_workers
    /\ \E i \in Units : unit[i].pc = "pending"

====
